---- MODULE Spec2Model ----
(***************************************************************************)
(* letmein: a password generator that re-derives site passwords from a     *)
(* master password and per-site profiles, and syncs the profiles with a    *)
(* server.  Model of src/main.go (the commands and the document) and       *)
(* src/profile.go (validation, matching, character set, derivation).       *)
(*                                                                         *)
(* Strings are sequences of runes (code points).  src/profile.go holds two *)
(* versions of the profile code: the later one (lines 249-551) keeps the   *)
(* source's names here, the earlier one (lines 1-247), against which       *)
(* src/main.go type-checks (Match takes a *Profile), has the suffix 0.     *)
(***************************************************************************)
EXTENDS Integers, Sequences, FiniteSets, TLC

---------------------------------------------------------------------------
(* Constants of src/profile.go *)

minMasterLength == 1
maxMasterLength == 128
minNameLength == 1
maxNameLength == 256
minUsernameLength == 0
maxUsernameLength == 256
minURLLength == 0
maxURLLength == 256
minLength == 1
maxLength == 32
defaultLength == 16
minGeneration == 0
maxGeneration == 1073741824
defaultGeneration == 0
minChar == 32
maxChar == 126
scryptN == 16384
scryptR == 8
scryptP == 1

schemeScrypt == "scrypt(master\\turl\\tusername,generation,16384,8,1,length)"

\* a nil *time.Time (an absent modified_at, synced_at, previous_sync_at)
Nil == 0

---------------------------------------------------------------------------
(* Runes and strings *)

\* unicode.ToLower, on the runes the model uses (ASCII, Latin-1, U+0130, U+212A)
ToLowerRune(r) ==
    IF r >= 65 /\ r <= 90 THEN r + 32
    ELSE IF r >= 192 /\ r <= 222 /\ r # 215 THEN r + 32
    ELSE IF r = 304 THEN 105
    ELSE IF r = 8490 THEN 107
    ELSE r

\* strings.ToLower
ToLower(s) == [i \in 1..Len(s) |-> ToLowerRune(s[i])]

\* unicode.IsSpace, on runes below 256
IsSpace(r) == r \in {9, 10, 11, 12, 13, 32, 133, 160}

\* unicode.IsLower, on runes below 256
IsLower(r) == (r >= 97 /\ r <= 122) \/ r = 181 \/ (r >= 223 /\ r <= 255 /\ r # 247)

\* unicode.IsUpper, on runes below 256
IsUpper(r) == (r >= 65 /\ r <= 90) \/ (r >= 192 /\ r <= 222 /\ r # 215)

\* unicode.IsDigit, on runes below 256
IsDigit(r) == r >= 48 /\ r <= 57

\* TrimLeft that drops one leading space only
TrimLeftOnce(s) == IF s # <<>> /\ IsSpace(Head(s)) THEN Tail(s) ELSE s

RECURSIVE TrimLeft(_)
TrimLeft(s) == IF s # <<>> /\ IsSpace(Head(s)) THEN TrimLeft(Tail(s)) ELSE s

RECURSIVE TrimRight(_)
TrimRight(s) ==
    IF s # <<>> /\ IsSpace(s[Len(s)]) THEN TrimRight(SubSeq(s, 1, Len(s) - 1)) ELSE s

\* strings.TrimSpace
TrimSpace(s) == TrimRight(TrimLeft(s))

\* strings.Contains
Contains(s, sub) ==
    \E i \in 0..(Len(s) - Len(sub)) : SubSeq(s, i + 1, i + Len(sub)) = sub

\* strings.ContainsRune
ContainsRune(s, r) == \E i \in 1..Len(s) : s[i] = r

\* the number of bytes of the UTF-8 encoding of a rune
RuneLen(r) == IF r < 128 THEN 1 ELSE IF r < 2048 THEN 2 ELSE 3

\* len(s) of a Go string: its length in bytes, the sum of RuneLen over its runes
ByteLen(s) ==
    LET AtLeast(k) == Cardinality({i \in DOMAIN s : RuneLen(s[i]) >= k})
    IN  AtLeast(1) + AtLeast(2) + AtLeast(3) + AtLeast(4)

\* a rune outside minChar..maxChar occurs in s
HasIllegalChar(s) == \E i \in 1..Len(s) : s[i] < minChar \/ s[i] > maxChar

RECURSIVE ItoaPos(_)
ItoaPos(n) == IF n < 10 THEN <<48 + n>> ELSE ItoaPos(n \div 10) \o <<48 + (n % 10)>>

\* strconv.Itoa
Itoa(n) == IF n < 0 THEN <<45>> \o ItoaPos(0 - n) ELSE ItoaPos(n)

---------------------------------------------------------------------------
(* Time.  A time is a positive number of half milliseconds; Nil is no time. *)

\* time.Time.Round(time.Millisecond): to the nearest millisecond, halves up
RoundMs(t) == IF t = Nil THEN Nil ELSE ((t + 1) \div 2) * 2

---------------------------------------------------------------------------
(* Profile *)

\* uuids are numbers from 1 on; this one is the empty uuid string
NoUUID == 0

ZeroProfile ==
    [scheme |-> "", uuid |-> NoUUID, name |-> <<>>, username |-> <<>>, url |-> <<>>,
     generation |-> 0, length |-> 0,
     lower |-> FALSE, upper |-> FALSE, digits |-> FALSE, punctuation |-> FALSE,
     spaces |-> FALSE, include |-> <<>>, exclude |-> <<>>, modifiedAt |-> Nil]

\* IsDeleted that tests the length against 0 only
IsDeletedZero(p) == p.length = 0

\* Profile.IsDeleted
IsDeleted(p) == p.length < 1

\* CanUse that looks at the include list last: include wins over exclude
CanUseIncludeLast(p, r) ==
    IF r < minChar \/ r > maxChar THEN FALSE
    ELSE LET base == IF IsSpace(r) THEN p.spaces
                     ELSE IF IsLower(r) THEN p.lower
                     ELSE IF IsUpper(r) THEN p.upper
                     ELSE IF IsDigit(r) THEN p.digits
                     ELSE p.punctuation
             exc == IF ContainsRune(p.exclude, r) THEN FALSE ELSE base
         IN  IF ContainsRune(p.include, r) THEN TRUE ELSE exc

\* Profile.CanUse
CanUse(p, r) ==
    IF r < minChar \/ r > maxChar THEN FALSE
    ELSE LET base == IF IsSpace(r) THEN p.spaces
                     ELSE IF IsLower(r) THEN p.lower
                     ELSE IF IsUpper(r) THEN p.upper
                     ELSE IF IsDigit(r) THEN p.digits
                     ELSE p.punctuation
             inc == IF ContainsRune(p.include, r) THEN TRUE ELSE base
         IN  IF ContainsRune(p.exclude, r) THEN FALSE ELSE inc

\* Profile.CanUse, earlier version: no range check
CanUse0(p, r) ==
    LET base == IF IsSpace(r) THEN p.spaces
                ELSE IF IsLower(r) THEN p.lower
                ELSE IF IsUpper(r) THEN p.upper
                ELSE IF IsDigit(r) THEN p.digits
                ELSE p.punctuation
        inc == IF ContainsRune(p.include, r) THEN TRUE ELSE base
    IN  IF ContainsRune(p.exclude, r) THEN FALSE ELSE inc

\* the runes minChar..maxChar in ascending order: the range of the loops
Printable == [i \in 1..(maxChar - minChar + 1) |-> minChar + i - 1]

\* Profile.GetCharacterSet
GetCharacterSet(p) == SelectSeq(Printable, LAMBDA r : CanUse(p, r))

\* NormInclude without the test of the exclude list
NormIncludeAll(p) == SelectSeq(Printable, LAMBDA r : ContainsRune(p.include, r))

\* the include buffer written by the normalization loop of Validate
NormInclude(p) ==
    SelectSeq(Printable,
              LAMBDA r : ~ContainsRune(p.exclude, r) /\ ContainsRune(p.include, r))

\* the exclude buffer written by the normalization loop of Validate
NormExclude(p) == SelectSeq(Printable, LAMBDA r : ContainsRune(p.exclude, r))

\* TooFew that lets a single character pass
TooFewNone(count) == count < 1

\* "can we use > 1 characters?": the test of the count in Validate
TooFew(count) == count < 2

\* the result of Validate: the error ("" for nil) and the profile as mutated
Result(e, p) == [err |-> e, p |-> p]

\* Profile.Validate
Validate(p) ==
    IF IsDeleted(p)
    THEN Result("", [p EXCEPT !.scheme = "", !.name = <<>>, !.username = <<>>,
                              !.url = <<>>, !.generation = 0, !.length = 0,
                              !.lower = FALSE, !.upper = FALSE, !.digits = FALSE,
                              !.punctuation = FALSE, !.spaces = FALSE,
                              !.include = <<>>, !.exclude = <<>>])
    ELSE IF p.scheme # schemeScrypt THEN Result("unknown scheme", p)
    ELSE
    LET p1 == [p EXCEPT !.name = TrimSpace(p.name)] IN
    IF ByteLen(p1.name) < minNameLength \/ ByteLen(p1.name) > maxNameLength
    THEN Result("name length", p1)
    ELSE IF HasIllegalChar(p1.name) THEN Result("name illegal character", p1)
    ELSE
    LET p2 == [p1 EXCEPT !.username = ToLower(TrimSpace(p1.username))] IN
    IF ByteLen(p2.username) < minUsernameLength \/ ByteLen(p2.username) > maxUsernameLength
    THEN Result("username length", p2)
    ELSE IF HasIllegalChar(p2.username) THEN Result("username illegal character", p2)
    ELSE
    LET p3 == [p2 EXCEPT !.url = ToLower(TrimSpace(p2.url))] IN
    IF ByteLen(p3.url) < minURLLength \/ ByteLen(p3.url) > maxURLLength
    THEN Result("url length", p3)
    ELSE IF HasIllegalChar(p3.url) THEN Result("url illegal character", p3)
    ELSE IF p3.generation < minGeneration \/ p3.generation > maxGeneration
    THEN Result("generation range", p3)
    ELSE IF p3.length < minLength \/ p3.length > maxLength
    THEN Result("length range", p3)
    ELSE
    LET count == Len(GetCharacterSet(p3))
        p4 == [p3 EXCEPT !.include = NormInclude(p3), !.exclude = NormExclude(p3)]
    IN
    IF TooFew(count) THEN Result("not more than 1 possible character", p4)
    ELSE Result("", [p4 EXCEPT !.modifiedAt = RoundMs(p4.modifiedAt)])

\* Profile.Validate, earlier version: no tombstone case, no scheme, no name, no
\* trimming; the illegal characters are looked for before the lower-casing.
\* Its maxGeneration is 1 << 50, above every integer of the model, so the
\* upper bound of the generation never rejects here.
Validate0(p) ==
    IF ByteLen(p.username) < minUsernameLength \/ ByteLen(p.username) > maxUsernameLength
    THEN Result("username length", p)
    ELSE IF HasIllegalChar(p.username) THEN Result("username illegal character", p)
    ELSE
    LET p1 == [p EXCEPT !.username = ToLower(p.username)] IN
    IF ByteLen(p1.url) < minURLLength \/ ByteLen(p1.url) > maxURLLength
    THEN Result("url length", p1)
    ELSE IF HasIllegalChar(p1.url) THEN Result("url illegal character", p1)
    ELSE
    LET p2 == [p1 EXCEPT !.url = ToLower(p1.url)] IN
    IF p2.generation < minGeneration THEN Result("generation range", p2)
    ELSE IF p2.length < minLength \/ p2.length > maxLength
    THEN Result("length range", p2)
    ELSE
    LET count == Cardinality({i \in 1..Len(Printable) : CanUse0(p2, Printable[i])})
        p3 == [p2 EXCEPT !.include = NormInclude(p2), !.exclude = NormExclude(p2)]
    IN
    IF TooFew(count) THEN Result("not more than 1 possible character", p3)
    ELSE Result("", p3)

\* Profile.Match: the search is a string matched against the name
Match(p, search) == ~IsDeleted(p) /\ Contains(ToLower(p.name), ToLower(search))

\* Match0 without the test of the length
Match0AnyLength(p, q) ==
    IF q.username # <<>> /\ ~Contains(p.username, ToLower(q.username)) THEN FALSE
    ELSE IF q.url # <<>> /\ ~Contains(p.url, ToLower(q.url)) THEN FALSE
    ELSE IF q.name # <<>> /\ ~Contains(ToLower(p.name), ToLower(q.name)) THEN FALSE
    ELSE TRUE

\* Profile.Match, earlier version: the search is a profile
Match0(p, q) ==
    IF p.length = 0 THEN FALSE
    ELSE IF q.username # <<>> /\ ~Contains(p.username, ToLower(q.username)) THEN FALSE
    ELSE IF q.url # <<>> /\ ~Contains(p.url, ToLower(q.url)) THEN FALSE
    ELSE IF q.name # <<>> /\ ~Contains(ToLower(p.name), ToLower(q.name)) THEN FALSE
    ELSE TRUE

---------------------------------------------------------------------------
(* Derivation *)

RECURSIVE Absorb(_, _)
Absorb(h, s) == IF s = <<>> THEN h ELSE Absorb((h * 31 + Head(s) + 7) % 65521, Tail(s))

\* scrypt.Key of github.com/dchest/scrypt, a library outside the repository: a
\* stand-in that is, like it, a fixed function of the password, the salt, the
\* cost parameters and the key length, and gives keyLen bytes.
scryptKey(password, salt, N, r, p, keyLen) ==
    LET seed == Absorb(Absorb(Absorb(1, password), <<0>> \o salt), <<N % 251, r, p>>)
    IN  [i \in 1..keyLen |-> ((seed + i) * ((seed % 251) + 3) * 17 + i * 101) % 256]

RECURSIVE MulBytes(_, _, _, _, _)
\* pool * k for a big-endian byte string pool: the bytes below 2^(8 * Len(pool))
\* and the carry out of them, from the least significant byte up
MulBytes(pool, k, i, carry, acc) ==
    IF i = 0 THEN [quo |-> carry, rem |-> acc]
    ELSE LET v == pool[i] * k + carry
         IN  MulBytes(pool, k, i - 1, v \div 256, <<v % 256>> \o acc)

\* a string back to front
Reverse(s) == [i \in 1..Len(s) |-> s[Len(s) + 1 - i]]

\* QuoRem that takes the first byte of the pool for its lowest
QuoRemLittleEndian(pool, k) ==
    LET qr == MulBytes(Reverse(pool), k, Len(pool), 0, <<>>)
    IN  [quo |-> qr.quo, rem |-> Reverse(qr.rem)]

\* big.Int: base = pool * k; quo, rem = QuoRem(base, poolSize), with
\* poolSize = 2^(8 * len(hash)) and pool held as len(hash) big-endian bytes
QuoRem(pool, k) == MulBytes(pool, k, Len(pool), 0, <<>>)

\* the rune standing for the run-time panic of an index out of range
PanicRune == -1

\* CharAt that counts q from 1
CharAtOneBased(chars, q) == IF q \in 1..Len(chars) THEN chars[q] ELSE PanicRune

\* chars[q] of a Go string, q counted from 0
CharAt(chars, q) == IF q + 1 \in 1..Len(chars) THEN chars[q + 1] ELSE PanicRune

RECURSIVE GenerateLoop(_, _, _)
\* the loop of Generate: n more characters out of the pool
GenerateLoop(pool, chars, n) ==
    IF n <= 0 THEN <<>>
    ELSE LET qr == QuoRem(pool, Len(chars))
         IN  <<CharAt(chars, qr.quo)>> \o GenerateLoop(qr.rem, chars, n - 1)

RECURSIVE DigitLoop(_, _, _)
\* the values of quo in the loop of Generate, for an alphabet of k characters
DigitLoop(pool, k, n) ==
    IF n <= 0 THEN <<>>
    ELSE LET qr == QuoRem(pool, k)
         IN  <<qr.quo>> \o DigitLoop(qr.rem, k, n - 1)

\* Generate that salts with the uuid as well
GenerateSaltedByUUID(p, master) ==
    LET passwordPart == master \o <<9>> \o p.url \o <<9>> \o p.username
        saltPart == Itoa(p.generation) \o Itoa(p.uuid)
        hash == scryptKey(passwordPart, saltPart, scryptN, scryptR, scryptP, p.length)
        chars == GetCharacterSet(p)
    IN  GenerateLoop(hash, chars, p.length)

\* Profile.Generate
Generate(p, master) ==
    LET passwordPart == master \o <<9>> \o p.url \o <<9>> \o p.username
        saltPart == Itoa(p.generation)
        hash == scryptKey(passwordPart, saltPart, scryptN, scryptR, scryptP, p.length)
        chars == GetCharacterSet(p)
    IN  GenerateLoop(hash, chars, p.length)

\* a password whose derivation panicked
Panicked(pw) == ContainsRune(pw, PanicRune)

---------------------------------------------------------------------------
(* Bounds and inputs *)

\* the uuids newUUID and the server draw from are 1..MaxUUID
MaxUUID == 2
\* the longest profile list of a server response
MaxResp == 2
\* the readings of the clock, in half milliseconds, are 1..MaxClock
MaxClock == 1

UUIDs == 1..MaxUUID

\* the invocations that may run at once
Procs == {1, 2}

\* master passwords given by -master: "m", "n", and "m" with a tab (illegal)
MasterInputs == {<<109>>, <<110>>, <<109, 9>>}

\* account names given by -name of init: none, and "me"
NameInputs == {<<>>, <<109, 101>>}

\* registerProfileFlags: the profile of the flags' default values
FlagDefaults ==
    [ZeroProfile EXCEPT !.generation = defaultGeneration, !.length = defaultLength,
                        !.lower = TRUE, !.upper = TRUE, !.digits = TRUE,
                        !.punctuation = TRUE]

\* command lines of create: -url a | -url AB -username U -length 1
\* -punctuation=false -include a! -exclude b | -url c with the one-character
\* alphabet "x"
CreateFlags ==
    {[FlagDefaults EXCEPT !.url = <<97>>],
     [FlagDefaults EXCEPT !.url = <<65, 66>>, !.username = <<85>>, !.length = 1,
                          !.punctuation = FALSE, !.include = <<97, 33>>,
                          !.exclude = <<98>>],
     [FlagDefaults EXCEPT !.url = <<99>>, !.lower = FALSE, !.upper = FALSE,
                          !.digits = FALSE, !.punctuation = FALSE,
                          !.include = <<120>>]}

\* command lines of update: -url a | -url B -generation 1 -length 8
\* -digits=false | -url z | -url b -length 0
UpdateFlags ==
    {[FlagDefaults EXCEPT !.url = <<97>>],
     [FlagDefaults EXCEPT !.url = <<66>>, !.generation = 1, !.length = 8,
                          !.digits = FALSE],
     [FlagDefaults EXCEPT !.url = <<122>>],
     [FlagDefaults EXCEPT !.url = <<98>>, !.length = 0]}

\* command lines of delete and list: -url a | -url b | no flag
SearchFlags ==
    {[FlagDefaults EXCEPT !.url = <<97>>],
     [FlagDefaults EXCEPT !.url = <<98>>],
     FlagDefaults}

---------------------------------------------------------------------------
(* Client and the JSON documents *)

ZeroClient ==
    [name |-> <<>>, verify |-> <<>>, profiles |-> <<>>, modifiedAt |-> Nil,
     syncedAt |-> Nil, previousSyncAt |-> Nil, master |-> <<>>]

\* VerifyProfile
VerifyProfile ==
    [ZeroProfile EXCEPT !.username = <<118, 101, 114, 105, 102, 121>>,
                        !.length = 4, !.lower = TRUE]

\* json.Marshal of a Profile: a field at its zero value is omitted
\* (omitempty), uuid is always written
MarshalProfile(p) ==
    [k \in {f \in DOMAIN p : f = "uuid" \/ p[f] # ZeroProfile[f]} |-> p[k]]

\* json.Unmarshal into a Profile of the earlier version, which has no scheme
\* field: a missing key leaves the zero value, an unknown key is dropped
UnmarshalProfile(j) ==
    [k \in DOMAIN ZeroProfile |->
        IF k \in DOMAIN j /\ k # "scheme" THEN j[k] ELSE ZeroProfile[k]]

\* json.Marshal of a Client: Master is never written (json:"-"), name and
\* verify always are, the rest is omitted when empty
MarshalClient(c) ==
    [k \in {f \in DOMAIN c : f # "master" /\
                (f \in {"name", "verify"} \/ c[f] # ZeroClient[f])} |->
        IF k = "profiles"
        THEN [n \in 1..Len(c.profiles) |-> MarshalProfile(c.profiles[n])]
        ELSE c[k]]

\* json.Unmarshal into a Client
UnmarshalClient(j) ==
    [k \in DOMAIN ZeroClient |->
        IF k \in DOMAIN j /\ k # "master"
        THEN IF k = "profiles"
             THEN [n \in 1..Len(j.profiles) |-> UnmarshalProfile(j.profiles[n])]
             ELSE j[k]
        ELSE ZeroClient[k]]

\* Client.Matches: the profiles matching q, as their places in c.Profiles
Matches(c, q) ==
    SelectSeq([n \in 1..Len(c.profiles) |-> n], LAMBDA n : Match0(c.profiles[n], q))

---------------------------------------------------------------------------
(* The server's side of a sync, as the responses it may give *)

\* profiles the server may hold for uuid u: deleted, deleted with a negative
\* length and a url left, and two live versions, one carrying the server's own
\* modified_at
ServerProfiles(u) ==
    {[ZeroProfile EXCEPT !.uuid = u],
     [ZeroProfile EXCEPT !.uuid = u, !.url = <<97>>, !.length = -1],
     [FlagDefaults EXCEPT !.uuid = u, !.url = <<115>>, !.length = 12,
                          !.modifiedAt = 2],
     [FlagDefaults EXCEPT !.uuid = u, !.url = <<97>>, !.length = 10,
                          !.upper = FALSE]}

\* every profile the server may put in a response
AllServerProfiles == UNION {ServerProfiles(u) : u \in UUIDs}

\* the profile lists of at most MaxResp entries
ServerLists == UNION {[1..n -> AllServerProfiles] : n \in 0..MaxResp}

\* the previous_sync_at values of a response
ServerTimes == {6}

\* the bodies of the 200 responses: the JSON of the server's Client
ServerBodies ==
    {MarshalClient([ZeroClient EXCEPT !.profiles = l, !.previousSyncAt = t]) :
        l \in ServerLists, t \in ServerTimes}

\* what comes back from http.DefaultClient.Do and the decoder
Outcomes == {"ok", "transport error", "error status", "undecodable"}

---------------------------------------------------------------------------
(* State *)

VARIABLES
    doc,      \* the file $HOME/.letmeinrc: state "none", "ok" or "corrupt", and its JSON
    inv,      \* inv[i]: the invocation i of the command, with its local variables
    issued,   \* the uuids drawn by newUUID or seen in a response so far
    touched,  \* the uuids whose profile a create, update or delete wrote to the
              \* document since the document was last written by a sync
    pure      \* a call of a function of src/profile.go on its own: its argument
              \* and its results

vars == <<doc, inv, issued, touched, pure>>

NoDoc == [state |-> "none", json |-> MarshalClient(ZeroClient)]

NoBody == MarshalClient(ZeroClient)

\* what an invocation keeps of a response: how the exchange ended, and of a
\* decoded response its previous_sync_at and, by uuid, the last entry of its
\* profile list
NoResponse == [outcome |-> "", previousSyncAt |-> Nil, last |-> <<>>]

\* an invocation that has not started.  doc0 is the document when it started,
\* out the passwords it generated, sent whether it posted its request, writes
\* how often it wrote the document, target the uuid it created or changed.
Idle ==
    [pc |-> "idle", cmd |-> "", master |-> <<>>, flags |-> ZeroProfile, now |-> Nil,
     client |-> ZeroClient, err |-> "", sent |-> FALSE, req |-> NoBody,
     resp |-> NoResponse, doc0 |-> NoDoc, out |-> <<>>, writes |-> 0,
     target |-> NoUUID]

\* no call
NoResult == Result("", ZeroProfile)
NoCall == [step |-> 0, p |-> ZeroProfile, r1 |-> NoResult, r2 |-> NoResult, pw |-> <<>>]

Init ==
    /\ doc = NoDoc
    /\ inv = [i \in Procs |-> Idle]
    /\ issued = {}
    /\ touched = {}
    /\ pure = NoCall

\* getAndVerifyMaster: the length and the characters of the master password
MasterOK(m) ==
    /\ ByteLen(m) >= minMasterLength
    /\ ByteLen(m) <= maxMasterLength
    /\ ~HasIllegalChar(m)

\* Fail that reports the error and returns to main, which writes the client
FailReturns(v, e) == [v EXCEPT !.pc = "write", !.err = e]

\* os.Exit(1) with the message e: the locals of the command are gone, the
\* command line is what it was
Fail(v, e) ==
    [Idle EXCEPT !.pc = "exit1", !.cmd = v.cmd, !.master = v.master, !.err = e,
                 !.flags = v.flags,
                 !.doc0 = v.doc0, !.out = v.out, !.sent = v.sent,
                 !.writes = v.writes]

\* main returns
Done(v) == [v EXCEPT !.pc = "exit0", !.client = ZeroClient]

\* the flag values tried for each command
FlagInputs(c) ==
    CASE c = "create" -> CreateFlags
      [] c = "update" -> UpdateFlags
      [] c = "sync"   -> {ZeroProfile}
      [] OTHER        -> SearchFlags

\* m with key k set to v (byuuid[k] = v)
Put(m, k, v) == [x \in DOMAIN m \cup {k} |-> IF x = k THEN v ELSE m[x]]

\* m without key k (delete(byuuid, k))
Del(m, k) == [x \in DOMAIN m \ {k} |-> m[x]]

RECURSIVE SeedLoopKeepsDeleted(_, _)
\* SeedLoop without the test of the length: a deleted profile is seeded too
SeedLoopKeepsDeleted(ps, m) ==
    IF ps = <<>> THEN m
    ELSE SeedLoopKeepsDeleted(Tail(ps),
                              Put(m, Head(ps).uuid, [Head(ps) EXCEPT !.modifiedAt = Nil]))

RECURSIVE SeedLoop(_, _)
\* the first loop of the merge, over client.Profiles: a deleted profile is
\* left out, modified_at is reset
SeedLoop(ps, m) ==
    IF ps = <<>> THEN m
    ELSE LET elt == Head(ps)
         IN  SeedLoop(Tail(ps),
                      IF elt.length > 0
                      THEN Put(m, elt.uuid, [elt EXCEPT !.modifiedAt = Nil])
                      ELSE m)

RECURSIVE UpdateLoopKeepsLocal(_, _)
\* UpdateLoop that only adds: a profile the map holds is not replaced
UpdateLoopKeepsLocal(us, m) ==
    IF us = <<>> THEN m
    ELSE LET elt == Head(us)
         IN  UpdateLoopKeepsLocal(Tail(us),
                IF elt.length <= 0 THEN Del(m, elt.uuid)
                ELSE IF elt.uuid \in DOMAIN m THEN m
                ELSE Put(m, elt.uuid, [elt EXCEPT !.modifiedAt = Nil]))

RECURSIVE UpdateLoopNoDelete(_, _)
\* UpdateLoop that skips the delete notices
UpdateLoopNoDelete(us, m) ==
    IF us = <<>> THEN m
    ELSE LET elt == Head(us)
         IN  UpdateLoopNoDelete(Tail(us),
                IF elt.length <= 0 THEN m
                ELSE Put(m, elt.uuid, [elt EXCEPT !.modifiedAt = Nil]))

RECURSIVE UpdateLoop(_, _)
\* the second loop of the merge, over updates.Profiles in response order
UpdateLoop(us, m) ==
    IF us = <<>> THEN m
    ELSE LET elt == Head(us)
         IN  UpdateLoop(Tail(us),
                        IF elt.length <= 0
                        THEN Del(m, elt.uuid)
                        ELSE Put(m, elt.uuid, [elt EXCEPT !.modifiedAt = Nil]))

\* Merge that takes the delete notices of the response after its other entries
MergeDeletesLast(local, updates) ==
    UpdateLoop(SelectSeq(updates, LAMBDA elt : elt.length <= 0),
               UpdateLoop(SelectSeq(updates, LAMBDA elt : elt.length > 0),
                          SeedLoop(local, <<>>)))

\* byuuid after both loops
Merge(local, updates) == UpdateLoop(updates, SeedLoop(local, <<>>))

\* the orders in which range over a map may yield the keys S
Orders(S) ==
    {f \in [1..Cardinality(S) -> S] : \A a, b \in 1..Cardinality(S) : f[a] = f[b] => a = b}

\* DirtyProfiles that leaves the deleted profiles out of the request
LiveDirtyProfiles(ps) == SelectSeq(ps, LAMBDA elt : elt.modifiedAt # Nil /\ elt.length > 0)

\* the profiles of the sync request: those with modified_at set
DirtyProfiles(ps) == SelectSeq(ps, LAMBDA elt : elt.modifiedAt # Nil)

\* the uuids of a profile list
UUIDsOf(ps) == {ps[n].uuid : n \in 1..Len(ps)}

\* the profiles of a list by uuid (the last one of a uuid, if it occurs twice)
ByUUID(ps) == [u \in UUIDsOf(ps) |->
                 ps[CHOOSE n \in 1..Len(ps) :
                       ps[n].uuid = u /\ \A k \in (n + 1)..Len(ps) : ps[k].uuid # u]]

---------------------------------------------------------------------------
(* The commands *)

\* initProfile and newClient
InitProfile(i) ==
    /\ inv[i].pc = "idle"
    /\ \E name \in NameInputs, m \in MasterInputs, raw \in 1..MaxClock :
         LET v0 == [Idle EXCEPT !.cmd = "init", !.master = m, !.now = RoundMs(raw),
                                !.doc0 = doc]
         IN  inv' = [inv EXCEPT ![i] =
                IF name = <<>> THEN Fail(v0, "name is required")
                ELSE IF ~MasterOK(m) THEN Fail(v0, "master password")
                ELSE IF doc.state # "none" THEN Fail(v0, "profile data already exists")
                ELSE [v0 EXCEPT !.pc = "write",
                                !.client = [ZeroClient EXCEPT
                                               !.name = name,
                                               !.verify = Generate(VerifyProfile, m),
                                               !.master = m]]]
    /\ UNCHANGED <<doc, issued, touched, pure>>

\* CheckVerify that takes any master password
CheckVerifyAccepts(client, verify, now) == [ok |-> TRUE, client |-> client]

\* CheckVerify that takes the code of any master password for the stored one
CheckVerifyAdopts(client, verify, now) ==
    IF client.verify # verify
    THEN [ok |-> TRUE, client |-> [client EXCEPT !.verify = verify, !.modifiedAt = now]]
    ELSE [ok |-> TRUE, client |-> client]

\* getClient, from the decoded client on: an empty verify code is set from
\* the master password, another one must equal the code of the master password
CheckVerify(client, verify, now) ==
    IF client.verify = <<>>
    THEN [ok |-> TRUE, client |-> [client EXCEPT !.verify = verify, !.modifiedAt = now]]
    ELSE IF client.verify # verify
    THEN [ok |-> FALSE, client |-> client]
    ELSE [ok |-> TRUE, client |-> client]

\* the head of createProfile, updateProfile, deleteProfile, listProfiles and
\* syncProfiles: the flags, getAndVerifyMaster, getClient
GetClient(i) ==
    /\ inv[i].pc = "idle"
    /\ \E c \in {"create", "update", "delete", "list", "sync"}, m \in MasterInputs,
          raw \in 1..MaxClock :
         \E f \in FlagInputs(c) :
         LET v0 == [Idle EXCEPT !.cmd = c, !.master = m, !.flags = f,
                                !.now = RoundMs(raw), !.doc0 = doc]
             checked == CheckVerify(UnmarshalClient(doc.json),
                                    Generate(VerifyProfile, m), v0.now)
         IN  inv' = [inv EXCEPT ![i] =
                IF ~MasterOK(m) THEN Fail(v0, "master password")
                ELSE IF doc.state = "none" THEN Fail(v0, "no profile data found")
                ELSE IF doc.state = "corrupt" THEN Fail(v0, "error parsing")
                ELSE IF ~checked.ok THEN Fail(v0, "verification mismatch")
                ELSE [v0 EXCEPT !.pc = c, !.client = checked.client]]
    /\ UNCHANGED <<doc, issued, touched, pure>>

\* newUUID: a random uuid; it is one not drawn or seen before (a repeat has
\* probability 2^-122), and of these, which differ in nothing else, the least
NewUUIDs == {u \in UUIDs \ issued : \A w \in UUIDs \ issued : u <= w}

\* createProfile, after getClient
CreateProfile(i) ==
    LET v == inv[i]
        c == v.client
        val == Validate0(v.flags)
    IN
    /\ v.pc = "create"
    /\ IF Matches(c, v.flags) # <<>>
       THEN /\ inv' = [inv EXCEPT ![i] = Fail(v, "matches existing profile")]
            /\ UNCHANGED issued
       ELSE IF val.err # ""
       THEN /\ inv' = [inv EXCEPT ![i] = Fail(v, "invalid profile")]
            /\ UNCHANGED issued
       ELSE \E u \in NewUUIDs :
              LET p == [val.p EXCEPT !.uuid = u, !.modifiedAt = v.now]
              IN  /\ inv' = [inv EXCEPT ![i] =
                        [v EXCEPT !.pc = "write",
                                  !.out = Append(v.out, Generate(p, v.master)),
                                  !.client = [c EXCEPT !.modifiedAt = v.now,
                                                       !.profiles = Append(c.profiles, p)],
                                  !.target = u]]
                  /\ issued' = issued \cup {u}
    /\ UNCHANGED <<doc, touched, pure>>

\* UpdateFields that forgets q.ModifiedAt = &now
UpdateFieldsUnmarked(q, p, now) ==
    [q EXCEPT !.username = IF p.username # <<>> THEN p.username ELSE @,
              !.url = IF p.url # <<>> THEN p.url ELSE @,
              !.generation = IF p.generation # defaultGeneration THEN p.generation ELSE @,
              !.length = IF p.length # defaultLength THEN p.length ELSE @,
              !.lower = p.lower, !.upper = p.upper, !.digits = p.digits,
              !.punctuation = p.punctuation, !.spaces = p.spaces,
              !.include = p.include, !.exclude = p.exclude]

\* UpdateFields that assigns the generation and the length whatever they are
UpdateFieldsAlways(q, p, now) ==
    [q EXCEPT !.username = IF p.username # <<>> THEN p.username ELSE @,
              !.url = IF p.url # <<>> THEN p.url ELSE @,
              !.generation = p.generation,
              !.length = p.length,
              !.lower = p.lower, !.upper = p.upper, !.digits = p.digits,
              !.punctuation = p.punctuation, !.spaces = p.spaces,
              !.include = p.include, !.exclude = p.exclude,
              !.modifiedAt = now]

\* the assignments of updateProfile to the matched profile q from the flags p
UpdateFields(q, p, now) ==
    [q EXCEPT !.username = IF p.username # <<>> THEN p.username ELSE @,
              !.url = IF p.url # <<>> THEN p.url ELSE @,
              !.generation = IF p.generation # defaultGeneration THEN p.generation ELSE @,
              !.length = IF p.length # defaultLength THEN p.length ELSE @,
              !.lower = p.lower, !.upper = p.upper, !.digits = p.digits,
              !.punctuation = p.punctuation, !.spaces = p.spaces,
              !.include = p.include, !.exclude = p.exclude,
              !.modifiedAt = now]

\* Assign that marks every other profile as changed too
AssignToAll(c, n, q, now) ==
    [c EXCEPT !.modifiedAt = now,
              !.profiles = [k \in 1..Len(c.profiles) |->
                              IF k = n THEN q
                              ELSE [c.profiles[k] EXCEPT !.modifiedAt = now]]]

\* the client after updateProfile or deleteProfile has assigned the fields of
\* q through the pointer to its n-th profile, and client.ModifiedAt = &now
Assign(c, n, q, now) == [c EXCEPT !.modifiedAt = now, !.profiles[n] = q]

\* IdentityError that lets several matches through
IdentityErrorNone(matches) ==
    IF Len(matches) = 0 THEN "no matching profile" ELSE ""

\* the test of updateProfile and of deleteProfile on what the search
\* returned: the message of the failure, "" when there is exactly one match
IdentityError(matches) ==
    IF Len(matches) > 1 THEN "no unique match"
    ELSE IF Len(matches) = 0 THEN "no matching profile"
    ELSE ""

\* updateProfile, after getClient
UpdateProfile(i) ==
    LET v == inv[i]
        c == v.client
        matches == Matches(c, v.flags)
        val == Validate0(v.flags)
    IN
    /\ v.pc = "update"
    /\ inv' = [inv EXCEPT ![i] =
          IF IdentityError(matches) # "" THEN Fail(v, IdentityError(matches))
          ELSE IF val.err # "" THEN Fail(v, "invalid profile")
          ELSE LET q == UpdateFields(c.profiles[matches[1]], val.p, v.now)
               IN  [v EXCEPT !.pc = "write",
                             !.out = Append(v.out, Generate(q, v.master)),
                             !.client = Assign(c, matches[1], q, v.now),
                             !.target = q.uuid]]
    /\ UNCHANGED <<doc, issued, touched, pure>>

\* DeleteFields that clears the uuid with the rest
DeleteFieldsAll(q, now) == [ZeroProfile EXCEPT !.name = q.name, !.modifiedAt = now]

\* DeleteFields that leaves modified_at as it was
DeleteFieldsUnmarked(q, now) ==
    [q EXCEPT !.username = <<>>, !.url = <<>>, !.generation = 0, !.length = 0,
              !.lower = FALSE, !.upper = FALSE, !.digits = FALSE,
              !.punctuation = FALSE, !.spaces = FALSE,
              !.include = <<>>, !.exclude = <<>>]

\* the assignments of deleteProfile to the matched profile q
DeleteFields(q, now) ==
    [q EXCEPT !.username = <<>>, !.url = <<>>, !.generation = 0, !.length = 0,
              !.lower = FALSE, !.upper = FALSE, !.digits = FALSE,
              !.punctuation = FALSE, !.spaces = FALSE,
              !.include = <<>>, !.exclude = <<>>, !.modifiedAt = now]

\* deleteProfile, after getClient
DeleteProfile(i) ==
    LET v == inv[i]
        c == v.client
        matches == Matches(c, v.flags)
    IN
    /\ v.pc = "delete"
    /\ inv' = [inv EXCEPT ![i] =
          IF IdentityError(matches) # "" THEN Fail(v, IdentityError(matches))
          ELSE LET q == DeleteFields(c.profiles[matches[1]], v.now)
               IN  [v EXCEPT !.pc = "write",
                             !.client = Assign(c, matches[1], q, v.now),
                             !.target = q.uuid]]
    /\ UNCHANGED <<doc, issued, touched, pure>>

\* listProfiles, after getClient: main does not write the document
ListProfiles(i) ==
    LET v == inv[i]
        c == v.client
        matches == Matches(c, v.flags)
        pws == [n \in 1..Len(matches) |-> Generate(c.profiles[matches[n]], v.master)]
    IN
    /\ v.pc = "list"
    /\ inv' = [inv EXCEPT ![i] =
          IF \E n \in 1..Len(pws) : Panicked(pws[n])
          THEN Fail([v EXCEPT !.out = pws], "index out of range")
          ELSE Done([v EXCEPT !.out = pws])]
    /\ UNCHANGED <<doc, issued, touched, pure>>

\* the request of syncProfiles: the client's name, verify code and sync times,
\* and the profiles with modified_at set
SyncRequest(c, now) ==
    [ZeroClient EXCEPT !.name = c.name, !.verify = c.verify,
                       !.modifiedAt = c.modifiedAt, !.syncedAt = now,
                       !.previousSyncAt = c.previousSyncAt,
                       !.profiles = DirtyProfiles(c.profiles)]

\* syncProfiles, after getClient: the request is encoded and posted
SyncSend(i) ==
    LET v == inv[i] IN
    /\ v.pc = "sync"
    /\ inv' = [inv EXCEPT ![i] =
          [v EXCEPT !.pc = "await", !.sent = TRUE,
                    !.req = MarshalClient(SyncRequest(v.client, v.now))]]
    /\ UNCHANGED <<doc, issued, touched, pure>>

\* Merged that leaves the client's own sync times as they were
MergedKeepsTimes(c, updates, ord) ==
    LET byuuid == Merge(c.profiles, updates.profiles)
    IN  [c EXCEPT !.profiles = [n \in 1..Len(ord) |-> byuuid[ord[n]]]]

\* the client after the merge of the decoded response, its profiles in order ord
Merged(c, updates, ord) ==
    LET byuuid == Merge(c.profiles, updates.profiles)
    IN  [c EXCEPT !.modifiedAt = Nil, !.syncedAt = Nil,
                  !.previousSyncAt = updates.previousSyncAt,
                  !.profiles = [n \in 1..Len(ord) |-> byuuid[ord[n]]]]

\* syncProfiles, from the answer of the server on: a failure exits, a 200
\* response is decoded and merged
SyncRecv(i) ==
    LET v == inv[i] IN
    /\ v.pc = "await"
    /\ \E o \in Outcomes :
         IF o # "ok"
         THEN /\ inv' = [inv EXCEPT ![i] = Fail(v, o)]
              /\ UNCHANGED issued
         ELSE \E body \in ServerBodies :
                LET updates == UnmarshalClient(body)
                    byuuid == Merge(v.client.profiles, updates.profiles)
                IN  \E ord \in Orders(DOMAIN byuuid) :
                      /\ inv' = [inv EXCEPT ![i] =
                            [v EXCEPT !.pc = "write", !.req = NoBody,
                                      !.resp = [outcome |-> o,
                                                previousSyncAt |-> updates.previousSyncAt,
                                                last |-> ByUUID(updates.profiles)],
                                      !.client = Merged(v.client, updates, ord)]]
                      /\ issued' = issued \cup UUIDsOf(updates.profiles)
    /\ UNCHANGED <<doc, touched, pure>>

\* WriteDoc that, after a create, update or delete, puts the one profile it
\* changed into the document as it is now
WriteDocMerged(i) ==
    LET v == inv[i]
        mine == SelectSeq(v.client.profiles, LAMBDA e : e.uuid = v.target)
        others == SelectSeq(UnmarshalClient(doc.json).profiles,
                            LAMBDA e : e.uuid # v.target)
        c == IF doc.state = "ok" /\ v.cmd \in {"create", "update", "delete"}
             THEN [v.client EXCEPT !.profiles = others \o mine]
             ELSE v.client
    IN
    /\ v.pc = "write"
    /\ doc' = [state |-> "ok", json |-> MarshalClient(c)]
    /\ inv' = [inv EXCEPT ![i] = Done([v EXCEPT !.writes = v.writes + 1])]
    /\ touched' = IF v.cmd \in {"sync", "init"} THEN {} ELSE touched \cup {v.target}
    /\ UNCHANGED <<issued, pure>>

\* the end of main: the client is encoded and written over the document
WriteDoc(i) ==
    LET v == inv[i] IN
    /\ v.pc = "write"
    /\ doc' = [state |-> "ok", json |-> MarshalClient(v.client)]
    /\ inv' = [inv EXCEPT ![i] = Done([v EXCEPT !.writes = v.writes + 1])]
    /\ touched' = IF v.cmd \in {"sync", "init"} THEN {} ELSE touched \cup {v.target}
    /\ UNCHANGED <<issued, pure>>

\* the end of main when ioutil.WriteFile fails: the document is as it was,
\* or cut short
WriteFail(i) ==
    LET v == inv[i] IN
    /\ v.pc = "write"
    /\ \/ UNCHANGED doc
       \/ doc' = [state |-> "corrupt", json |-> NoBody]
    /\ inv' = [inv EXCEPT ![i] = Fail(v, "error writing")]
    /\ UNCHANGED <<issued, touched, pure>>

\* the process ends
Exit(i) ==
    /\ inv[i].pc \in {"exit0", "exit1"}
    /\ inv' = [inv EXCEPT ![i] = Idle]
    /\ UNCHANGED <<doc, issued, touched, pure>>

\* one invocation at a time
Next ==
    \/ InitProfile(1)
    \/ GetClient(1)
    \/ CreateProfile(1)
    \/ UpdateProfile(1)
    \/ DeleteProfile(1)
    \/ ListProfiles(1)
    \/ SyncSend(1)
    \/ SyncRecv(1)
    \/ WriteDoc(1)
    \/ WriteFail(1)
    \/ Exit(1)

Spec == Init /\ [][Next]_vars

---------------------------------------------------------------------------
(* Two invocations at once, over the document that "init -name me" and
   "create -url a", both with the master password "m", have written *)

\* the client after init and create, with the profile of uuid 1
RaceClient ==
    LET p == [Validate0([FlagDefaults EXCEPT !.url = <<97>>]).p EXCEPT
                 !.uuid = 1, !.modifiedAt = RoundMs(1)]
    IN  [ZeroClient EXCEPT !.name = <<109, 101>>,
                           !.verify = Generate(VerifyProfile, <<109>>),
                           !.modifiedAt = RoundMs(1),
                           !.profiles = <<p>>]

RaceDoc == [state |-> "ok", json |-> MarshalClient(RaceClient)]

InitRace ==
    /\ doc = RaceDoc
    /\ inv = [i \in Procs |-> Idle]
    /\ issued = {1}
    /\ touched = {1}
    /\ pure = NoCall

\* each of the two invocations runs one command; nothing orders their steps
NextRace ==
    \E i \in Procs :
        \/ GetClient(i)
        \/ CreateProfile(i)
        \/ UpdateProfile(i)
        \/ DeleteProfile(i)
        \/ ListProfiles(i)
        \/ SyncSend(i)
        \/ SyncRecv(i)
        \/ WriteDoc(i)

SpecRace == InitRace /\ [][NextRace]_vars

---------------------------------------------------------------------------
(* Validate on its own: the profiles it is called on, and its calls *)

\* a profile that Validate leaves as it is
BaseProfile ==
    [FlagDefaults EXCEPT !.scheme = schemeScrypt, !.uuid = 1, !.name = <<110>>]

\* a string one byte longer than maxURLLength
LongString == [n \in 1..(maxURLLength + 1) |-> 97]

\* names, user names and URLs: empty, with spaces around and upper case, with
\* a no-break space in front, with a tab inside, with the Kelvin sign (whose
\* lower case is k), with e acute, too long
NameInputsV == {<<>>, <<32, 32, 78, 32>>, <<160, 110>>, <<110, 9, 110>>}
UsernameInputsV == {<<>>, <<32, 32, 85, 32>>, <<8490>>, <<233>>}
URLInputsV == {<<>>, <<65, 32, 98, 9>>, LongString}

\* the profiles Validate is called on: the strings with either scheme, live
\* and deleted; the numbers and modified_at; the character classes with
\* include and exclude lists; deleted profiles with every other field invalid
ValidateInputs ==
    {[BaseProfile EXCEPT !.scheme = sc, !.name = n, !.username = un, !.url = url,
                         !.length = l] :
        sc \in {schemeScrypt, ""}, n \in NameInputsV, un \in UsernameInputsV,
        url \in URLInputsV, l \in {defaultLength, 0}}
    \cup
    {[BaseProfile EXCEPT !.generation = g, !.length = l, !.modifiedAt = t] :
        g \in {0, -1, maxGeneration, maxGeneration + 1},
        l \in {-1, 0, minLength, maxLength, maxLength + 1}, t \in {Nil, 3}}
    \cup
    {[BaseProfile EXCEPT !.lower = tg[1], !.upper = tg[2], !.digits = tg[2],
                         !.punctuation = tg[2], !.spaces = tg[3],
                         !.include = inc, !.exclude = exc] :
        tg \in {<<TRUE, TRUE, FALSE>>, <<FALSE, FALSE, FALSE>>, <<TRUE, FALSE, TRUE>>},
        inc \in {<<>>, <<98, 97, 98>>, <<200, 120>>, <<120, 33>>},
        exc \in {<<>>, <<98, 32>>, <<120>>}}
    \cup
    {[BaseProfile EXCEPT !.scheme = "", !.name = <<110, 9, 110>>, !.username = <<233>>,
                         !.url = LongString, !.generation = -1, !.length = l,
                         !.include = <<200, 120>>, !.exclude = <<98, 32>>,
                         !.modifiedAt = 3] :
        l \in {0, -1}}

InitValidate ==
    /\ doc = NoDoc
    /\ inv = [i \in Procs |-> Idle]
    /\ issued = {}
    /\ touched = {}
    /\ pure \in {[NoCall EXCEPT !.p = p] : p \in ValidateInputs}

\* p.Validate()
ValidateOnce ==
    /\ pure.step = 0
    /\ pure' = [pure EXCEPT !.step = 1, !.r1 = Validate(pure.p)]
    /\ UNCHANGED <<doc, inv, issued, touched>>

\* p.Validate() again, on the profile a successful first call left
ValidateAgain ==
    /\ pure.step = 1
    /\ pure.r1.err = ""
    /\ pure' = [pure EXCEPT !.step = 2, !.r2 = Validate(pure.r1.p)]
    /\ UNCHANGED <<doc, inv, issued, touched>>

\* createProfile: "validate the new profile", on the profile of the flags
CreateValidate ==
    /\ pure.step = 0
    /\ pure' = [pure EXCEPT !.step = 3, !.r1 = Validate0(pure.p)]
    /\ UNCHANGED <<doc, inv, issued, touched>>

\* createProfile: p.Generate(master) of the profile that passed, with the
\* master password "m"
CreateGenerate ==
    /\ pure.step = 3
    /\ pure.r1.err = ""
    /\ pure' = [pure EXCEPT !.step = 4, !.pw = Generate(pure.r1.p, <<109>>)]
    /\ UNCHANGED <<doc, inv, issued, touched>>

NextValidate == ValidateOnce \/ ValidateAgain \/ CreateValidate \/ CreateGenerate

SpecValidate == InitValidate /\ [][NextValidate]_vars

---------------------------------------------------------------------------
(* GetCharacterSet on its own *)

\* include lists: none, "a!", " Z9", "bab", and x among runes outside 32..126
IncludeInputs == {<<>>, <<97, 33>>, <<32, 90, 57>>, <<98, 97, 98>>, <<200, 31, 127, 120>>}

\* exclude lists: none, "a", " 5~", and A after the rune 127
ExcludeInputs == {<<>>, <<97>>, <<32, 53, 126>>, <<127, 65>>}

\* the profiles GetCharacterSet is called on: every combination of the five
\* toggles with each include and exclude list
CharsetInputs ==
    {[BaseProfile EXCEPT !.lower = lo, !.upper = up, !.digits = di,
                         !.punctuation = pu, !.spaces = sp,
                         !.include = inc, !.exclude = exc] :
        lo \in BOOLEAN, up \in BOOLEAN, di \in BOOLEAN, pu \in BOOLEAN,
        sp \in BOOLEAN, inc \in IncludeInputs, exc \in ExcludeInputs}

InitCharset ==
    /\ doc = NoDoc
    /\ inv = [i \in Procs |-> Idle]
    /\ issued = {}
    /\ touched = {}
    /\ pure \in {[step |-> 0, p |-> p, chars |-> <<>>] : p \in CharsetInputs}

\* chars := p.GetCharacterSet()
BuildCharacterSet ==
    /\ pure.step = 0
    /\ pure' = [pure EXCEPT !.step = 1, !.chars = GetCharacterSet(pure.p)]
    /\ UNCHANGED <<doc, inv, issued, touched>>

NextCharset == BuildCharacterSet

SpecCharset == InitCharset /\ [][NextCharset]_vars

---------------------------------------------------------------------------
(* The loop of Generate on its own: any bytes for the hash, any alphabet *)

\* the length of the hash is at most MaxBytes
MaxBytes == 2

\* the values of a byte of the hash
ByteInputs == {0, 1, 127, 128, 255}

\* hashes: every string of at most MaxBytes of these bytes
HashInputs == UNION {[1..n -> ByteInputs] : n \in 0..MaxBytes}

\* alphabets: none, "A", "AB", "ABC", "ABCD", the lower-case letters and all
\* of 32..126
AlphabetInputs ==
    {<<>>, <<65>>, <<65, 66>>, <<65, 66, 67>>, <<65, 66, 67, 68>>,
     [i \in 1..26 |-> 96 + i], Printable}

InitMapper ==
    /\ doc = NoDoc
    /\ inv = [i \in Procs |-> Idle]
    /\ issued = {}
    /\ touched = {}
    /\ pure \in {[step |-> 0, hash |-> h, chars |-> cs, digits |-> <<>>, out |-> <<>>] :
                    h \in HashInputs, cs \in AlphabetInputs}

\* "map the generated password to the character set": the loop of Generate
\* for a hash of p.Length bytes
MapToCharacterSet ==
    /\ pure.step = 0
    /\ pure' = [pure EXCEPT
                   !.step = 1,
                   !.digits = DigitLoop(pure.hash, Len(pure.chars), Len(pure.hash)),
                   !.out = GenerateLoop(pure.hash, pure.chars, Len(pure.hash))]
    /\ UNCHANGED <<doc, inv, issued, touched>>

NextMapper == MapToCharacterSet

SpecMapper == InitMapper /\ [][NextMapper]_vars

---------------------------------------------------------------------------
(* Generate on its own, called on two profiles *)

\* the digits 0..9
DigitChars == [i \in 1..10 |-> 47 + i]

\* profiles with the digits for alphabet, with and without the 5
GenerateInputs ==
    {[ZeroProfile EXCEPT !.scheme = schemeScrypt, !.uuid = 1, !.name = <<110>>,
                         !.url = url, !.username = un, !.generation = g,
                         !.length = l, !.digits = TRUE, !.exclude = exc] :
        url \in {<<97>>, <<98>>}, un \in {<<>>, <<117>>}, g \in {0, 1},
        l \in {1, 2}, exc \in {<<>>, <<53>>}}

\* profiles to compare p with: p; p under another uuid, name, scheme and
\* modified_at and with the digits given by the include list instead of the
\* toggle; p with more in include and exclude that leaves the alphabet as
\* it is; and p with another url, user name, generation, length or alphabet
Variants(p) ==
    {p,
     [p EXCEPT !.uuid = 2, !.name = <<120>>, !.scheme = "", !.modifiedAt = 3,
               !.digits = FALSE, !.include = DigitChars],
     [p EXCEPT !.include = <<57, 48, 57>>, !.exclude = p.exclude \o <<97, 200>>],
     [p EXCEPT !.url = p.url \o <<99>>],
     [p EXCEPT !.username = <<118>>],
     [p EXCEPT !.generation = p.generation + 1],
     [p EXCEPT !.length = p.length + 1],
     [p EXCEPT !.include = <<97>>]}

\* the pairs of calls: p and a variant of it under the same and under another
\* master password, and any two of the profiles under the same
GeneratePairs ==
    UNION {{[step |-> 0, p |-> p, q |-> q, m1 |-> <<109>>, m2 |-> m2,
             out1 |-> <<>>, out2 |-> <<>>] :
               q \in Variants(p), m2 \in {<<109>>, <<110>>}} : p \in GenerateInputs}
    \cup
    {[step |-> 0, p |-> p, q |-> q, m1 |-> <<109>>, m2 |-> <<109>>,
      out1 |-> <<>>, out2 |-> <<>>] : p \in GenerateInputs, q \in GenerateInputs}

InitGenerate ==
    /\ doc = NoDoc
    /\ inv = [i \in Procs |-> Idle]
    /\ issued = {}
    /\ touched = {}
    /\ pure \in GeneratePairs

\* p.Generate(m1) and q.Generate(m2)
GenerateTwo ==
    /\ pure.step = 0
    /\ pure' = [pure EXCEPT !.step = 1,
                            !.out1 = Generate(pure.p, pure.m1),
                            !.out2 = Generate(pure.q, pure.m2)]
    /\ UNCHANGED <<doc, inv, issued, touched>>

NextGenerate == GenerateTwo

SpecGenerate == InitGenerate /\ [][NextGenerate]_vars

---------------------------------------------------------------------------
(* One invocation at a time, over a document that holds no verify code *)

\* clients without a verify code: one with no profile, one with a profile
\* as a sync leaves it
EmptyVerifyClients ==
    {[ZeroClient EXCEPT !.name = <<109, 101>>],
     [ZeroClient EXCEPT !.name = <<109, 101>>, !.previousSyncAt = 6,
                        !.profiles = <<[FlagDefaults EXCEPT !.uuid = 1, !.url = <<97>>,
                                                             !.length = 10,
                                                             !.upper = FALSE]>>]}

InitVerify ==
    /\ \E c \in EmptyVerifyClients :
          /\ doc = [state |-> "ok", json |-> MarshalClient(c)]
          /\ issued = UUIDsOf(c.profiles)
    /\ inv = [i \in Procs |-> Idle]
    /\ touched = {}
    /\ pure = NoCall

NextVerify ==
    \/ InitProfile(1)
    \/ GetClient(1)
    \/ CreateProfile(1)
    \/ UpdateProfile(1)
    \/ DeleteProfile(1)
    \/ ListProfiles(1)
    \/ SyncSend(1)
    \/ SyncRecv(1)
    \/ WriteDoc(1)
    \/ WriteFail(1)
    \/ Exit(1)

SpecVerify == InitVerify /\ [][NextVerify]_vars

---------------------------------------------------------------------------
(* The merge of syncProfiles on its own, on two responses *)

\* the longest profile list of a response
MaxEntries == 3

\* local collections before a sync: none; a created profile not yet sent; a
\* profile as a sync left it beside one deleted since
MergeLocals ==
    {<<>>,
     <<[FlagDefaults EXCEPT !.uuid = 1, !.url = <<97>>, !.modifiedAt = 2]>>,
     <<[FlagDefaults EXCEPT !.uuid = 1, !.url = <<97>>, !.length = 10,
                            !.upper = FALSE],
       DeleteFields([FlagDefaults EXCEPT !.uuid = 2, !.url = <<98>>], 2)>>}

\* the profile lists of a response, of at most MaxEntries entries
MergeLists == UNION {[1..n -> AllServerProfiles] : n \in 0..MaxEntries}

\* the list us in every order
Reorderings(us) == {[k \in 1..Len(us) |-> us[f[k]]] : f \in Orders(1..Len(us))}

\* a collection and two responses to merge into it: a list and the same
\* entries in any order
InitMerge ==
    /\ doc = NoDoc
    /\ inv = [i \in Procs |-> Idle]
    /\ issued = {}
    /\ touched = {}
    /\ \E us \in MergeLists : \E vs \in Reorderings(us) : \E l \in MergeLocals :
          pure = [step |-> 0, local |-> l, u1 |-> us, u2 |-> vs,
                  m1 |-> <<>>, m2 |-> <<>>]

\* the two loops of the merge, on the same collection and each response
MergeTwo ==
    /\ pure.step = 0
    /\ pure' = [pure EXCEPT !.step = 1,
                            !.m1 = Merge(pure.local, pure.u1),
                            !.m2 = Merge(pure.local, pure.u2)]
    /\ UNCHANGED <<doc, inv, issued, touched>>

NextMerge == MergeTwo

SpecMerge == InitMerge /\ [][NextMerge]_vars

---------------------------------------------------------------------------
(* The claims.  Invocation 1 is the one that runs under Spec. *)

\* the client a document decodes to
Stored(d) == UnmarshalClient(d.json)

\* the profiles of the document when invocation 1 started, and those of the
\* document now
Pre == Stored(inv[1].doc0).profiles
Post == Stored(doc).profiles

\* invocation 1 was a sync that succeeded and has written the document
SyncDone == inv[1].pc = "exit0" /\ inv[1].cmd = "sync"

\* the places of uuid u in the profile list ps
Places(ps, u) == {n \in 1..Len(ps) : ps[n].uuid = u}

\* C1: after a successful sync, a profile that was in the local collection
\* with length < 1 is absent from the collection, unless the last entry of
\* the server response for its uuid is a live profile (in particular when
\* the response never mentions the uuid).
C1_LocalTombstonesDropped ==
    SyncDone =>
        \A n \in 1..Len(Pre) :
            (/\ Pre[n].length < 1
             /\ \/ Pre[n].uuid \notin DOMAIN inv[1].resp.last
                \/ inv[1].resp.last[Pre[n].uuid].length < 1)
            => Places(Post, Pre[n].uuid) = {}

\* C1 witness: a sync that has dropped a deleted, unsent profile which the
\* response never mentioned, while it kept another profile
C1_Witness ==
    /\ SyncDone
    /\ Post # <<>>
    /\ \E n \in 1..Len(Pre) :
          /\ Pre[n].length < 1
          /\ Pre[n].modifiedAt # Nil
          /\ Pre[n].uuid \notin DOMAIN inv[1].resp.last
          /\ Places(Post, Pre[n].uuid) = {}

\* C2: after a successful sync, for every uuid whose last entry in the
\* response has length > 0, the collection holds exactly one profile with
\* that uuid, equal to that entry with modified_at absent, whatever the local
\* copy was.
C2_ServerEntryReplaces ==
    SyncDone =>
        \A u \in DOMAIN inv[1].resp.last :
            inv[1].resp.last[u].length > 0 =>
                /\ Cardinality(Places(Post, u)) = 1
                /\ \A n \in Places(Post, u) :
                      /\ Post[n].modifiedAt = Nil
                      /\ Post[n] = [inv[1].resp.last[u] EXCEPT !.modifiedAt = Nil]

\* C2 witness: a sync that has replaced a dirty local profile by a different
\* server version, and added a profile unknown before
C2_Witness ==
    /\ SyncDone
    /\ \E u \in DOMAIN inv[1].resp.last :
          /\ inv[1].resp.last[u].length > 0
          /\ inv[1].resp.last[u].modifiedAt # Nil
          /\ \E n \in Places(Pre, u) :
                /\ Pre[n].modifiedAt # Nil
                /\ Pre[n].length > 0
                /\ Pre[n].length # inv[1].resp.last[u].length
    /\ \E u \in DOMAIN inv[1].resp.last :
          /\ inv[1].resp.last[u].length > 0
          /\ Places(Pre, u) = {}
          /\ Places(Post, u) # {}

\* C3: after a successful sync, no profile of the collection has a uuid whose
\* last entry in the response is a tombstone (length < 1), whether or not the
\* uuid was in the collection before and whether or not it was dirty.
C3_ServerTombstoneDeletes ==
    SyncDone =>
        \A u \in DOMAIN inv[1].resp.last :
            inv[1].resp.last[u].length < 1 => Places(Post, u) = {}

\* C3 witness: a sync whose response deleted a live profile that was dirty
\* locally
C3_Witness ==
    /\ SyncDone
    /\ \E u \in DOMAIN inv[1].resp.last :
          /\ inv[1].resp.last[u].length < 1
          /\ Places(Post, u) = {}
          /\ \E n \in Places(Pre, u) : Pre[n].length > 0 /\ Pre[n].modifiedAt # Nil

\* C4: after a successful sync every profile of the collection has
\* modified_at absent, the client's modified_at and synced_at are absent, and
\* its previous_sync_at is that of the response.
C4_SyncCommit ==
    SyncDone =>
        /\ \A n \in 1..Len(Post) : Post[n].modifiedAt = Nil
        /\ Stored(doc).modifiedAt = Nil
        /\ Stored(doc).syncedAt = Nil
        /\ Stored(doc).previousSyncAt = inv[1].resp.previousSyncAt

\* C4 witness: a sync of a modified client that had never synced, after which
\* a profile that was dirty is still in the collection as the local copy
C4_Witness ==
    /\ SyncDone
    /\ Stored(inv[1].doc0).modifiedAt # Nil
    /\ Stored(inv[1].doc0).previousSyncAt # inv[1].resp.previousSyncAt
    /\ \E n \in 1..Len(Pre) :
          /\ Pre[n].modifiedAt # Nil
          /\ Pre[n].uuid \notin DOMAIN inv[1].resp.last
          /\ Places(Post, Pre[n].uuid) # {}

\* the request invocation 1 has posted, decoded
Request == UnmarshalClient(inv[1].req)

\* C5: the profile list of the sync request is exactly the local profiles
\* whose modified_at is present, tombstones included, in their order, and the
\* request carries the client's name, verify code and previous_sync_at.
C5_DirtySetSelected ==
    inv[1].pc = "await" =>
        /\ \A n \in 1..Len(Pre) :
              Pre[n].modifiedAt # Nil <=> \E k \in 1..Len(Request.profiles) :
                                              Request.profiles[k] = Pre[n]
        /\ \A k \in 1..Len(Request.profiles) :
              /\ Request.profiles[k].modifiedAt # Nil
              /\ \E n \in 1..Len(Pre) : Pre[n] = Request.profiles[k]
        /\ Len(Request.profiles) =
              Cardinality({n \in 1..Len(Pre) : Pre[n].modifiedAt # Nil})
        /\ \A k, l \in 1..Len(Request.profiles) :
              k < l => \E a, b \in 1..Len(Pre) :
                          a < b /\ Pre[a] = Request.profiles[k] /\ Pre[b] = Request.profiles[l]
        /\ Request.name = Stored(inv[1].doc0).name
        /\ Request.verify = inv[1].client.verify
        /\ Stored(inv[1].doc0).verify # <<>> => Request.verify = Stored(inv[1].doc0).verify
        /\ Request.previousSyncAt = Stored(inv[1].doc0).previousSyncAt

\* C5 witness: a request posted for a collection of a clean profile and a
\* dirty tombstone, after an earlier sync
C5_Witness ==
    /\ inv[1].pc = "await"
    /\ Stored(inv[1].doc0).previousSyncAt # Nil
    /\ \E n \in 1..Len(Pre) : Pre[n].modifiedAt = Nil
    /\ \E k \in 1..Len(Request.profiles) : Request.profiles[k].length < 1

\* C6: in every document, a profile's modified_at is present exactly when a
\* create, update or delete changed the profile since the last successful
\* sync; and whatever profile a local command leaves different from before
\* (or new) has modified_at present.
C6_DirtyFlagExact ==
    doc.state = "ok" =>
        /\ \A n \in 1..Len(Post) : Post[n].modifiedAt # Nil <=> Post[n].uuid \in touched
        /\ (inv[1].pc = "exit0" /\ inv[1].cmd \in {"create", "update", "delete", "list"}) =>
              \A n \in 1..Len(Post) :
                  (\A k \in 1..Len(Pre) : Pre[k] # Post[n]) => Post[n].modifiedAt # Nil

\* C6 witness: an update has changed a profile that a sync had left clean,
\* beside a profile that is still clean
C6_Witness ==
    /\ inv[1].pc = "exit0"
    /\ inv[1].cmd = "update"
    /\ Stored(doc).previousSyncAt # Nil
    /\ \E n \in 1..Len(Post) :
          /\ Post[n].modifiedAt # Nil
          /\ \E k \in 1..Len(Pre) :
                Pre[k].uuid = Post[n].uuid /\ Pre[k].modifiedAt = Nil
                /\ Pre[k].length # Post[n].length
    /\ \E n \in 1..Len(Post) : Post[n].modifiedAt = Nil

\* C7: no two profiles of the document have the same uuid; update and delete
\* leave every profile's uuid as it was (also the deleted one's), create
\* leaves those of the profiles it found, and after a sync a profile is the
\* server's entry for its uuid or the local profile of that uuid, and a live
\* local profile the response did not mention is still there.
C7_UUIDIdentity ==
    doc.state = "ok" =>
        /\ \A a, b \in 1..Len(Post) : Post[a].uuid = Post[b].uuid => a = b
        /\ (inv[1].pc = "exit0" /\ inv[1].cmd \in {"update", "delete"}) =>
              /\ Len(Post) = Len(Pre)
              /\ \A n \in 1..Len(Post) : Post[n].uuid = Pre[n].uuid
        /\ (inv[1].pc = "exit0" /\ inv[1].cmd = "create") =>
              /\ Len(Post) = Len(Pre) + 1
              /\ \A n \in 1..Len(Pre) : Post[n].uuid = Pre[n].uuid
        /\ SyncDone =>
              /\ \A n \in 1..Len(Post) :
                    \/ Post[n].uuid \in DOMAIN inv[1].resp.last
                    \/ \E k \in 1..Len(Pre) :
                          /\ Pre[k].uuid = Post[n].uuid
                          /\ Post[n] = [Pre[k] EXCEPT !.modifiedAt = Nil]
              /\ \A k \in 1..Len(Pre) :
                    (Pre[k].length > 0 /\ Pre[k].uuid \notin DOMAIN inv[1].resp.last)
                    => Places(Post, Pre[k].uuid) # {}

\* C7 witness: a delete has left a tombstone with its uuid beside another
\* profile
C7_Witness ==
    /\ inv[1].pc = "exit0"
    /\ inv[1].cmd = "delete"
    /\ Len(Post) = 2
    /\ \E n \in 1..Len(Post) :
          Post[n].length < 1 /\ Post[n].uuid \in UUIDs /\ Pre[n].length > 0

\* the commands that load the document
LoadCommands == {"create", "update", "delete", "list", "sync"}

\* C8: an invocation of a loading command whose document has a verify code
\* other than the code of the master password given has exited with an error,
\* has generated no password, has posted no request and has not written the
\* document.
C8_VerifyBeforeAnything ==
    LET v == inv[1]
    IN  (/\ v.cmd \in LoadCommands
         /\ v.doc0.state = "ok"
         /\ Stored(v.doc0).verify # <<>>
         /\ Stored(v.doc0).verify # Generate(VerifyProfile, v.master))
        => /\ v.pc = "exit1"
           /\ v.out = <<>>
           /\ ~v.sent
           /\ v.writes = 0
           /\ doc = v.doc0

\* C8 witness: a list with a wrong master password has exited on the verify
\* mismatch, over a document with a live profile
C8_Witness ==
    /\ inv[1].pc = "exit1"
    /\ inv[1].err = "verification mismatch"
    /\ inv[1].cmd = "list"
    /\ \E n \in 1..Len(Post) : Post[n].length > 0

\* C9: an invocation that has met an error other than a failed write of the
\* document has left the document as it found it; an invocation writes the
\* document at most once, and only as its last step, with no error met.
C9_FailureAtomic ==
    LET v == inv[1]
    IN  /\ v.writes <= 1
        /\ (v.err # "" /\ v.err # "error writing") => (doc = v.doc0 /\ v.writes = 0)
        /\ (v.pc # "idle" /\ doc # v.doc0) =>
              \/ v.pc = "exit0" /\ v.writes = 1
              \/ v.err = "error writing"
        /\ v.writes = 1 => (v.pc = "exit0" /\ v.err = "")

\* C9 witness: a sync of a document with a dirty profile has exited on an
\* undecodable response, after its request was posted
C9_Witness ==
    /\ inv[1].pc = "exit1"
    /\ inv[1].err = "undecodable"
    /\ inv[1].sent
    /\ \E n \in 1..Len(Post) : Post[n].modifiedAt # Nil

\* Validate has been called on the profile pure.p
Validated == pure.step \in {1, 2}

\* C10: when Validate succeeds on a profile, Validate on the resulting
\* profile succeeds too and leaves every field of it unchanged.
C10_ValidateIdempotent ==
    pure.step = 2 => (pure.r2.err = "" /\ pure.r2.p = pure.r1.p)

\* C10 witness: a second call after a first one that trimmed and lower-cased
\* the strings of a live profile, or that put the include list in order
C10_Witness ==
    /\ pure.step = 2
    /\ pure.r1.p.length >= 1
    /\ \/ /\ pure.r1.p.name # pure.p.name
          /\ pure.r1.p.username # pure.p.username
          /\ pure.r1.p.url # pure.p.url
       \/ /\ pure.r1.p.include # pure.p.include
          /\ pure.r1.p.exclude # <<>>

Runes(s) == {s[i] : i \in DOMAIN s}
Without(s, c) == SelectSeq(s, LAMBDA r : r # c)

\* each rune of s is above the one before it
Ascending(s) == \A i, j \in DOMAIN s : i < j => s[i] < s[j]

\* a first call of Validate has accepted a profile that is not deleted
ValidatedLive == Validated /\ pure.r1.err = "" /\ pure.p.length >= 1

\* C12: after a successful Validate of a profile that is not deleted, include
\* holds the characters of 32..126 that were in include and not in exclude,
\* exclude those of 32..126 that were in exclude, each once and in ascending
\* order, so that none is in both; and the alphabet is the one of before.
C12_IncludeExcludeNormalized ==
    ValidatedLive =>
        LET q == pure.r1.p IN
        /\ Runes(q.include) = (Runes(pure.p.include) \cap Runes(Printable))
                               \ Runes(pure.p.exclude)
        /\ Runes(q.exclude) = Runes(pure.p.exclude) \cap Runes(Printable)
        /\ Ascending(q.include) /\ Ascending(q.exclude)
        /\ Runes(q.include) \cap Runes(q.exclude) = {}
        /\ GetCharacterSet(q) = GetCharacterSet(pure.p)

\* C12 witness: Validate has accepted a profile whose include list was out of
\* order, held a character twice, one that exclude holds too and one that
\* the lower-case toggle enables already, which it kept
C12_Witness ==
    /\ ValidatedLive
    /\ ~Ascending(pure.p.include)
    /\ Runes(pure.p.include) \cap Runes(pure.p.exclude) # {}
    /\ pure.p.lower
    /\ \E c \in Runes(pure.r1.p.include) : IsLower(c)
    /\ pure.r1.p.include # pure.p.include

\* C12 as stated: after a successful Validate of a profile that is not
\* deleted, every character of include and of exclude changes the alphabet
\* (the alphabet is another without it), none is in both, and the alphabet
\* is the one of before.
C12_OnlyEffectiveKept ==
    ValidatedLive =>
        LET q == pure.r1.p IN
        /\ \A c \in Runes(q.include) :
              GetCharacterSet([q EXCEPT !.include = Without(q.include, c)])
                  # GetCharacterSet(q)
        /\ \A c \in Runes(q.exclude) :
              GetCharacterSet([q EXCEPT !.exclude = Without(q.exclude, c)])
                  # GetCharacterSet(q)
        /\ Runes(q.include) \cap Runes(q.exclude) = {}
        /\ GetCharacterSet(q) = GetCharacterSet(pure.p)

\* the number of distinct characters of the alphabet of p
AlphabetSize(p) == Cardinality(Runes(GetCharacterSet(p)))

\* C13: Validate rejects every profile that is not deleted and whose alphabet
\* has fewer than 2 characters, so a profile it accepted that is not deleted
\* has an alphabet of 2 distinct characters at least; the validation of
\* create rejects such a profile too, and the profile create hands to
\* Generate has an alphabet of 2 characters at least.
C13_DegenerateAlphabetRejected ==
    /\ (Validated /\ pure.p.length >= 1 /\ AlphabetSize(pure.p) < 2)
          => pure.r1.err # ""
    /\ ValidatedLive => AlphabetSize(pure.r1.p) >= 2
    /\ (pure.step \in {3, 4} /\ AlphabetSize(pure.p) < 2) => pure.r1.err # ""
    /\ pure.step = 4 => (AlphabetSize(pure.r1.p) >= 2 /\ ~Panicked(pure.pw))

\* C13 witness: Validate has rejected, for its alphabet alone, a profile whose
\* alphabet is the one character left of an include list
C13_Witness ==
    /\ Validated
    /\ pure.p.length >= 1
    /\ AlphabetSize(pure.p) = 1
    /\ pure.p.include # <<>>
    /\ pure.r1.err = "not more than 1 possible character"

\* the toggle of the class of the ASCII character c: space, lower-case
\* letter, upper-case letter, digit, else punctuation
ClassToggle(p, c) ==
    IF c = 32 THEN p.spaces
    ELSE IF c \in 97..122 THEN p.lower
    ELSE IF c \in 65..90 THEN p.upper
    ELSE IF c \in 48..57 THEN p.digits
    ELSE p.punctuation

\* C14: the alphabet is exactly the characters c of 32..126 that are not in
\* exclude and are in include or have the toggle of their class on; no
\* character outside 32..126 is in it; its characters are in strictly
\* ascending order.
C14_CharacterSetExact ==
    pure.step = 1 =>
        /\ Runes(pure.chars) =
              {c \in 32..126 :
                  /\ c \notin Runes(pure.p.exclude)
                  /\ (c \in Runes(pure.p.include) \/ ClassToggle(pure.p, c))}
        /\ \A i \in DOMAIN pure.chars : pure.chars[i] >= 32 /\ pure.chars[i] <= 126
        /\ Ascending(pure.chars)

\* C14 witness: the alphabet of a profile with digits and punctuation on and
\* the other toggles off, whose include list holds characters outside
\* 32..126 and a lower-case letter, and whose exclude list is not empty
C14_Witness ==
    /\ pure.step = 1
    /\ pure.p.digits /\ pure.p.punctuation
    /\ ~pure.p.lower /\ ~pure.p.upper /\ ~pure.p.spaces
    /\ \E c \in Runes(pure.p.include) : c > 126
    /\ \E c \in Runes(pure.p.include) : c \in Runes(pure.chars) /\ c \in 97..122
    /\ pure.p.exclude # <<>>
    /\ Len(pure.chars) >= 2

\* C15: for a hash of L bytes and an alphabet of K >= 2 characters, each of
\* the L digits of the loop is in 0..K-1, no lookup is out of range, and each
\* of the L characters of the output is a character of the alphabet.
C15_DigitsInRange ==
    (pure.step = 1 /\ Len(pure.chars) >= 2) =>
        /\ Len(pure.digits) = Len(pure.hash)
        /\ \A i \in DOMAIN pure.digits :
              pure.digits[i] >= 0 /\ pure.digits[i] < Len(pure.chars)
        /\ ~Panicked(pure.out)
        /\ Len(pure.out) = Len(pure.hash)
        /\ Runes(pure.out) \subseteq Runes(pure.chars)

\* C15 witness: the loop has run over a hash of two bytes 255 with the
\* alphabet of all of 32..126, and its first digit is the highest one
C15_Witness ==
    /\ pure.step = 1
    /\ pure.hash = <<255, 255>>
    /\ pure.chars = Printable
    /\ pure.digits[1] = Len(pure.chars) - 1
    /\ pure.out[1] = maxChar

\* 2^n
RECURSIVE Pow2(_)
Pow2(n) == IF n = 0 THEN 1 ELSE 2 * Pow2(n - 1)

\* the value of a byte string read as a big-endian number
RECURSIVE BigEndian(_)
BigEndian(h) ==
    IF h = <<>> THEN 0 ELSE 256 * BigEndian(SubSeq(h, 1, Len(h) - 1)) + h[Len(h)]

\* pool_i of the mapper for the hash h and K characters: pool_0 is the value
\* of h, pool_i = (pool_{i-1} * K) mod 2^(8 * Len(h))
RECURSIVE PoolAt(_, _, _)
PoolAt(h, K, i) ==
    IF i = 0 THEN BigEndian(h) ELSE (PoolAt(h, K, i - 1) * K) % Pow2(8 * Len(h))

\* d_i = (pool_{i-1} * K) div 2^(8 * Len(h))
DigitAt(h, K, i) == (PoolAt(h, K, i - 1) * K) \div Pow2(8 * Len(h))

\* C16: for a hash of L bytes and an alphabet of K >= 1 characters the output
\* has L characters and its i-th character is alphabet[d_i], with d_i and
\* pool_i as above; byte 0x80 with AB gives B, byte 0x00 with ABCD gives A,
\* byte 0xFF with ABCD gives D.
C16_MapperExact ==
    (pure.step = 1 /\ Len(pure.chars) >= 1) =>
        /\ Len(pure.out) = Len(pure.hash)
        /\ \A i \in DOMAIN pure.out :
              /\ pure.digits[i] = DigitAt(pure.hash, Len(pure.chars), i)
              /\ pure.out[i] = pure.chars[DigitAt(pure.hash, Len(pure.chars), i) + 1]
        /\ (pure.hash = <<128>> /\ pure.chars = <<65, 66>>) => pure.out = <<66>>
        /\ (pure.hash = <<0>> /\ pure.chars = <<65, 66, 67, 68>>) => pure.out = <<65>>
        /\ (pure.hash = <<255>> /\ pure.chars = <<65, 66, 67, 68>>) => pure.out = <<68>>

\* C16 witness: the loop has run over the bytes 0x80 0x01 with the alphabet
\* ABC: 32769 * 3 = 1 * 65536 + 32771, and 32771 * 3 = 1 * 65536 + 32777
C16_Witness ==
    /\ pure.step = 1
    /\ pure.hash = <<128, 1>>
    /\ pure.chars = <<65, 66, 67>>
    /\ pure.digits = <<1, 1>>
    /\ PoolAt(pure.hash, 3, 1) = 32771
    /\ PoolAt(pure.hash, 3, 2) = 32777
    /\ pure.out = <<66, 66>>

\* the two calls agree on master, url, user name, generation, length and
\* alphabet
SameDerivationInputs ==
    /\ pure.m1 = pure.m2
    /\ pure.p.url = pure.q.url
    /\ pure.p.username = pure.q.username
    /\ pure.p.generation = pure.q.generation
    /\ pure.p.length = pure.q.length
    /\ GetCharacterSet(pure.p) = GetCharacterSet(pure.q)

\* C17: two calls of Generate that agree on master, url, user name,
\* generation, length and alphabet give the same password, whatever the
\* uuid, name, scheme, modified_at and the toggles, include and exclude
\* lists the alphabet comes from.
C17_GenerateDeterministic ==
    (pure.step = 1 /\ SameDerivationInputs) => pure.out1 = pure.out2

\* C17 witness: the same password of two characters for two profiles that
\* differ in uuid, name, modified_at, the digits toggle and the include list
C17_Witness ==
    /\ pure.step = 1
    /\ SameDerivationInputs
    /\ pure.p.uuid # pure.q.uuid
    /\ pure.p.name # pure.q.name
    /\ pure.p.modifiedAt # pure.q.modifiedAt
    /\ pure.p.digits # pure.q.digits
    /\ pure.p.include # pure.q.include
    /\ Len(pure.out1) = 2
    /\ pure.out1 = pure.out2

\* every search tried by a command
SearchInputs == CreateFlags \cup UpdateFlags \cup SearchFlags

\* the profiles of the client c that the search q returns
Found(c, q) == {c.profiles[Matches(c, q)[k]] : k \in DOMAIN Matches(c, q)}

\* C18: no search of the document or of the client in memory returns a
\* profile with length < 1; a list prints one password for each profile of
\* the document that the search returns, each with length >= 1; the target
\* of an update or a delete is a profile that had length >= 1.
C18_TombstonesExcluded ==
    LET v == inv[1] IN
    /\ doc.state = "ok" =>
          \A q \in SearchInputs : \A e \in Found(Stored(doc), q) : e.length >= 1
    /\ \A q \in SearchInputs : \A e \in Found(v.client, q) : e.length >= 1
    /\ (v.cmd = "list" /\ v.pc = "exit0") =>
          /\ Len(v.out) = Cardinality(Found(Stored(v.doc0), v.flags))
          /\ \A e \in Found(Stored(v.doc0), v.flags) : e.length >= 1
    /\ (v.cmd \in {"update", "delete"} /\ v.pc \in {"write", "exit0"}) =>
          \E n \in 1..Len(Pre) : Pre[n].uuid = v.target /\ Pre[n].length >= 1

\* C18 witness: a list without a flag over a document of a deleted profile
\* and a live one has printed one password
C18_Witness ==
    /\ inv[1].cmd = "list"
    /\ inv[1].pc = "exit0"
    /\ inv[1].flags.url = <<>>
    /\ \E n \in 1..Len(Pre) : Pre[n].length < 1
    /\ \E n \in 1..Len(Pre) : Pre[n].length >= 1
    /\ Len(Pre) = 2
    /\ Len(inv[1].out) = 1

\* both invocations read the document RaceDoc, and both have written theirs
BothWrote ==
    \A i \in Procs :
        inv[i].pc = "exit0" /\ inv[i].writes = 1 /\ inv[i].doc0 = RaceDoc

\* the document shows the change of invocation i: the previous_sync_at of its
\* sync, or the profile it created, updated or deleted, marked as changed
Reflects(i) ==
    IF inv[i].cmd = "sync"
    THEN Stored(doc).previousSyncAt # Stored(inv[i].doc0).previousSyncAt
    ELSE \E n \in 1..Len(Post) :
            /\ Post[n].uuid = inv[i].target
            /\ Post[n].modifiedAt # Nil
            /\ \A k \in 1..Len(Stored(inv[i].doc0).profiles) :
                  Stored(inv[i].doc0).profiles[k] # Post[n]

\* the two invocations changed different things: not two syncs, not the same
\* profile
DifferentChanges ==
    /\ ~(inv[1].cmd = "sync" /\ inv[2].cmd = "sync")
    /\ (inv[1].cmd # "sync" /\ inv[2].cmd # "sync") => inv[1].target # inv[2].target

\* C19: when two invocations have both read the document before either wrote
\* it and both have written, the document shows the change of one of them at
\* most: the whole copy of the one that wrote last replaces what the other
\* wrote.
C19_RaceLosesOneChange ==
    (BothWrote /\ DifferentChanges) => ~(Reflects(1) /\ Reflects(2))

\* C19 witness: invocation 1 created a profile, invocation 2 read the
\* document before that was written and wrote its own change last; the
\* created profile is not in the document
C19_Witness ==
    /\ BothWrote
    /\ inv[1].cmd = "create"
    /\ inv[2].cmd \in {"update", "delete", "sync"}
    /\ Reflects(2)
    /\ Places(Post, inv[1].target) = {}

\* the failures of getClient, which come before the command looks at the
\* collection
GetClientErrors ==
    {"master password", "no profile data found", "error parsing",
     "verification mismatch"}

\* invocation 1 was an update or a delete that got past getClient and has
\* made its search
Searched ==
    /\ inv[1].cmd \in {"update", "delete"}
    /\ inv[1].pc \in {"write", "exit0", "exit1"}
    /\ inv[1].err \notin GetClientErrors

\* C20: an update or a delete goes on to change a profile only when its
\* search matched exactly one profile of the collection it read, a live one,
\* which is its target; with no match it stops with "no matching profile"
\* and with two or more with "no unique match", and then it has printed
\* nothing, written nothing, and the document, with every profile and the
\* client's modified_at, is as it was read.
C20_IdentityErrors ==
    LET v == inv[1]
        c == Stored(v.doc0)
        matches == Matches(c, v.flags)
    IN
    Searched =>
        /\ Len(matches) > 1 <=> v.err = "no unique match"
        /\ Len(matches) = 0 <=> v.err = "no matching profile"
        /\ v.err \in {"no unique match", "no matching profile"} =>
              /\ v.pc = "exit1"
              /\ v.writes = 0
              /\ v.out = <<>>
              /\ doc = v.doc0
        /\ v.pc \in {"write", "exit0"} =>
              /\ Len(matches) = 1
              /\ c.profiles[matches[1]].length >= 1
              /\ c.profiles[matches[1]].uuid = v.target

\* C20 witness: a delete without a flag over a document of two live
\* profiles, one of them changed since the last sync, has stopped with
\* "no unique match"
C20_Witness ==
    /\ inv[1].cmd = "delete"
    /\ inv[1].pc = "exit1"
    /\ inv[1].err = "no unique match"
    /\ Len(Pre) = 2
    /\ \A n \in 1..Len(Pre) : Pre[n].length >= 1
    /\ \E n \in 1..Len(Pre) : Pre[n].modifiedAt # Nil
    /\ Post = Pre
    /\ Stored(doc).modifiedAt = Stored(inv[1].doc0).modifiedAt

\* the entries of the profile list us that have uuid u, in their order
EntriesOf(us, u) == SelectSeq(us, LAMBDA elt : elt.uuid = u)

\* the two responses hold the same entries, those of each uuid in the same
\* order
SameOrderPerUUID ==
    /\ Len(pure.u1) = Len(pure.u2)
    /\ \A u \in UUIDsOf(pure.u1) \cup UUIDsOf(pure.u2) :
          EntriesOf(pure.u1, u) = EntriesOf(pure.u2, u)

\* C21: for one collection before the sync, two responses that hold the same
\* entries, those of each uuid in the same relative order, merge to the same
\* profiles by uuid; for each uuid of a response its last entry decides: a
\* delete notice (length < 1) leaves the uuid out, any other entry leaves the
\* uuid with that entry, modified_at reset; and a uuid that the response does
\* not name stays as the first loop left it.
C21_MergeOrder ==
    pure.step = 1 =>
        /\ SameOrderPerUUID => pure.m1 = pure.m2
        /\ \A u \in UUIDsOf(pure.u1) :
              LET last == ByUUID(pure.u1)[u] IN
              IF last.length < 1
              THEN u \notin DOMAIN pure.m1
              ELSE /\ u \in DOMAIN pure.m1
                   /\ pure.m1[u] = [last EXCEPT !.modifiedAt = Nil]
        /\ \A u \in DOMAIN pure.m1 \ UUIDsOf(pure.u1) :
              /\ u \in DOMAIN SeedLoop(pure.local, <<>>)
              /\ pure.m1[u] = SeedLoop(pure.local, <<>>)[u]

\* C21 witness: two responses in different orders, each with an update and
\* then a delete notice of uuid 1 and an entry of uuid 2 at another place,
\* merged into a collection that holds uuid 1; both leave uuid 1 out
C21_Witness ==
    /\ pure.step = 1
    /\ pure.u1 # pure.u2
    /\ SameOrderPerUUID
    /\ Len(EntriesOf(pure.u1, 1)) = 2
    /\ EntriesOf(pure.u1, 1)[1].length > 0
    /\ EntriesOf(pure.u1, 1)[2].length < 1
    /\ Len(EntriesOf(pure.u1, 2)) = 1
    /\ 1 \in UUIDsOf(pure.local)
    /\ pure.m1 = pure.m2
    /\ 1 \notin DOMAIN pure.m1

\* every deleted profile of the list ps has modified_at present
DeletedAreDirty(ps) == \A n \in 1..Len(ps) : ps[n].length < 1 => ps[n].modifiedAt # Nil

\* C22: in every document that init, create, update, delete, list and sync
\* leave, and in every collection an invocation holds in memory, a profile
\* with length < 1 has modified_at present; so when a sync has posted its
\* request, every deleted profile of its collection is in the request, and
\* every deleted profile that a merge dropped had been posted.
C22_NoUnsentDeletion ==
    /\ doc.state = "ok" => DeletedAreDirty(Post)
    /\ DeletedAreDirty(inv[1].client.profiles)
    /\ inv[1].pc = "await" =>
          \A n \in 1..Len(inv[1].client.profiles) :
              inv[1].client.profiles[n].length < 1 =>
                  \E k \in 1..Len(Request.profiles) :
                      Request.profiles[k] = inv[1].client.profiles[n]
    /\ (inv[1].cmd = "sync" /\ inv[1].pc \in {"write", "exit0"}) =>
          /\ inv[1].sent
          /\ DeletedAreDirty(Pre)
          /\ \A n \in 1..Len(inv[1].client.profiles) :
                inv[1].client.profiles[n].length >= 1

\* C22 witness: a sync has merged the response into a collection that held
\* a deleted profile beside a live one that was not to be sent; the deleted
\* one had modified_at present and is gone from the collection
C22_Witness ==
    /\ inv[1].cmd = "sync"
    /\ inv[1].pc = "write"
    /\ inv[1].sent
    /\ \E n \in 1..Len(Pre) :
          /\ Pre[n].length < 1
          /\ Pre[n].modifiedAt # Nil
          /\ Places(inv[1].client.profiles, Pre[n].uuid) = {}
    /\ \E n \in 1..Len(Pre) : Pre[n].length >= 1 /\ Pre[n].modifiedAt = Nil

\* invocation 1 was the command cmd and has written the document
Wrote(cmd) == inv[1].pc = "exit0" /\ inv[1].cmd = cmd /\ inv[1].writes = 1

\* the fields of the client that no local edit assigns are in the document
\* as they were read, and the client's modified_at is the time of the command
ClientFrame ==
    /\ Stored(doc).name = Stored(inv[1].doc0).name
    /\ Stored(doc).verify = Stored(inv[1].doc0).verify
    /\ Stored(doc).previousSyncAt = Stored(inv[1].doc0).previousSyncAt
    /\ Stored(doc).modifiedAt = inv[1].now
    /\ Stored(doc).modifiedAt # Nil

\* C23: a create that succeeded has appended one profile, with a uuid that
\* no profile had and modified_at present, after the profiles that were
\* there, each as it was; an update or a delete that succeeded has left the
\* number and the uuids of the profiles as they were and every profile but
\* the one it matched as it was; after each of the three the client's name,
\* verify code and previous_sync_at are as they were read and the client's
\* modified_at is set.
C23_LocalEditFrame ==
    /\ Wrote("create") =>
          /\ Len(Post) = Len(Pre) + 1
          /\ \A n \in 1..Len(Pre) : Post[n] = Pre[n]
          /\ Post[Len(Post)].uuid = inv[1].target
          /\ Post[Len(Post)].uuid \notin UUIDsOf(Pre) \cup {NoUUID}
          /\ Post[Len(Post)].modifiedAt # Nil
          /\ ClientFrame
    /\ (Wrote("update") \/ Wrote("delete")) =>
          /\ Len(Post) = Len(Pre)
          /\ \A n \in 1..Len(Pre) : Post[n].uuid = Pre[n].uuid
          /\ Cardinality(Places(Pre, inv[1].target)) = 1
          /\ \A n \in 1..Len(Pre) : Pre[n].uuid # inv[1].target => Post[n] = Pre[n]
          /\ ClientFrame

\* C23 witness: an update has changed one of two profiles, after a sync, and
\* the other one, which has no modified_at, is as it was
C23_Witness ==
    /\ Wrote("update")
    /\ Len(Pre) = 2
    /\ Stored(inv[1].doc0).previousSyncAt # Nil
    /\ \E n, k \in 1..Len(Pre) :
          /\ Pre[n].uuid = inv[1].target
          /\ Post[n] # Pre[n]
          /\ k # n
          /\ Pre[k].modifiedAt = Nil
          /\ Post[k] = Pre[k]

\* the place of the target of invocation 1 in the document it read
TargetPlace == CHOOSE n \in 1..Len(Pre) : Pre[n].uuid = inv[1].target

\* C24: after an update that succeeded, with p the flags as Validate left
\* them, q0 the matched profile as read and q1 the same as written: the five
\* toggles, include and exclude of q1 are p's; user name and url of q1 are
\* p's (in lower case) where p's is not empty and q0's otherwise; generation
\* and length of q1 are p's where p's is not the default (0, 16) and q0's
\* otherwise; uuid, name and scheme are q0's; modified_at is the time of the
\* command.
C24_UpdateResult ==
    Wrote("update") =>
        LET p == Validate0(inv[1].flags).p
            q0 == Pre[TargetPlace]
            q1 == Post[TargetPlace]
        IN  /\ Validate0(inv[1].flags).err = ""
            /\ q1.lower = p.lower /\ q1.upper = p.upper /\ q1.digits = p.digits
            /\ q1.punctuation = p.punctuation /\ q1.spaces = p.spaces
            /\ q1.include = p.include /\ q1.exclude = p.exclude
            /\ q1.username = IF inv[1].flags.username # <<>>
                             THEN ToLower(inv[1].flags.username) ELSE q0.username
            /\ q1.url = IF inv[1].flags.url # <<>>
                        THEN ToLower(inv[1].flags.url) ELSE q0.url
            /\ q1.generation = IF p.generation # 0 THEN p.generation ELSE q0.generation
            /\ q1.length = IF p.length # 16 THEN p.length ELSE q0.length
            /\ q1.uuid = q0.uuid /\ q1.name = q0.name /\ q1.scheme = q0.scheme
            /\ q1.modifiedAt = inv[1].now
            /\ q1.modifiedAt # Nil

\* C24 witness: an update with -url B -generation 1 -length 8 -digits=false
\* of a profile that had url ab, a user name, digits, and an include and an
\* exclude list
C24_Witness ==
    /\ Wrote("update")
    /\ inv[1].flags.url = <<66>>
    /\ Pre[TargetPlace].url = <<97, 98>>
    /\ Pre[TargetPlace].username # <<>>
    /\ Pre[TargetPlace].include # <<>>
    /\ Pre[TargetPlace].digits
    /\ Post[TargetPlace].url = <<98>>
    /\ Post[TargetPlace].username = Pre[TargetPlace].username
    /\ Post[TargetPlace].generation = 1
    /\ Post[TargetPlace].length = 8
    /\ ~Post[TargetPlace].digits
    /\ Post[TargetPlace].include = <<>>

\* invocation 1 is a command that loads the document, and the document it
\* found could be decoded
Loaded == inv[1].cmd \in LoadCommands /\ inv[1].doc0.state = "ok"

\* the verify code of the master password of invocation 1
OwnVerify == Generate(VerifyProfile, inv[1].master)

\* C25: an invocation that finds a document with an empty verify code and
\* has a well-formed master password does not fail in loading; once loaded,
\* its client holds the verify code of that master password and has
\* modified_at set to the time of the command; the document holds that code
\* once the invocation has written it (create, update, delete, sync) and is
\* left as it was, its verify code empty, by a list and by an invocation
\* that failed before its write; and a document that holds a verify code
\* holds the same one after every invocation that leaves it decodable.
C25_EmptyVerifyAdopted ==
    LET v == inv[1] IN
    /\ (Loaded /\ Stored(v.doc0).verify = <<>> /\ MasterOK(v.master)) =>
          /\ v.err \notin GetClientErrors
          /\ v.pc \in LoadCommands \cup {"await"} =>
                v.client.verify = OwnVerify /\ v.client.modifiedAt = v.now
          /\ v.pc = "write" => v.client.verify = OwnVerify
          /\ (v.pc = "exit0" /\ v.writes = 1) =>
                /\ v.cmd \in {"create", "update", "delete", "sync"}
                /\ Stored(doc).verify = OwnVerify
                /\ OwnVerify # <<>>
          /\ (v.pc = "exit0" /\ v.cmd = "list") => v.writes = 0
          /\ (v.pc \in {"exit0", "exit1"} /\ v.writes = 0 /\ v.err # "error writing") =>
                doc = v.doc0
    /\ (Loaded /\ Stored(v.doc0).verify = <<>> /\ ~MasterOK(v.master)) =>
          v.pc = "exit1" /\ doc = v.doc0
    /\ (Loaded /\ Stored(v.doc0).verify # <<>> /\ doc.state = "ok") =>
          Stored(doc).verify = Stored(v.doc0).verify

\* C25 witness: an update with the master password n has written its verify
\* code into a document that held none
C25_Witness ==
    /\ Wrote("update")
    /\ inv[1].master = <<110>>
    /\ Stored(inv[1].doc0).verify = <<>>
    /\ Stored(doc).verify = OwnVerify
    /\ Stored(doc).verify # <<>>

====
